---- MODULE Spec2Model ----
(***************************************************************************)
(* Eligibility evaluation orchestrator of the lender matching platform.   *)
(*                                                                         *)
(* One orchestration call is modelled: the caller (the submit route, or a  *)
(* direct call of EligibilityService.evaluate_application) hands a lender  *)
(* list to the coordinator, which creates one task per lender, gathers     *)
(* them and builds the report.  Confidence scores are kept in hundredths   *)
(* (0.5 is 50, 0.4 is 40, 0.6 is 60), so every comparison the code makes   *)
(* on floats is made on integers here.                                     *)
(***************************************************************************)
EXTENDS Integers, Sequences, FiniteSets, TLC

(* ------------------------------ bounds -------------------------------- *)

\* Longest lender list handed to one orchestration call.
MaxLenders == 3

\* Bound on the criteria stored for one lender by criteria-creation
\* requests, and on the criteria one extraction returns.
MaxCriteria == 2
MaxExtracted == 2

(* ------------------------- program constants -------------------------- *)

\* eligibility_service.py:74  `result.confidence_score >= 0.5`
MatchThreshold == 50
\* eligibility_service.py:266 `base_confidence = 0.4`
ClampUnmatched == 40
\* eligibility_service.py:268 `base_confidence = 0.6`
ClampMatched == 60
\* eligibility_service.py:262 `analysis.get('confidence_score', 0.5)`
DefaultConfidence == 50
\* loan_application.py:146 `Field(..., ge=0, le=1)`
MinConfidence == 0
MaxConfidence == 100
\* application_routes.py:78 `status.HTTP_400_BAD_REQUEST`
HttpBadRequest == 400
\* eligibility_service.py:220 `text = text[7:]`
JsonFenceLen == 7
\* eligibility_service.py:222 `text = text[3:]`, :225 `text = text[:-3]`
FenceLen == 3

\* print(f"[ERROR] Response text: {cleaned_text[:500]}...")
DiagnosticLen == 500

(* ----------------------------- inputs --------------------------------- *)

\* An optional field of the oracle payload: the empty sequence when the key
\* is missing, the one-element sequence of its value otherwise.
Absent == << >>
Some(x) == << x >>

\* Lender i of the input list carries the identifier LenderId(i).
LenderId(i) == 100 + i

\* The lender lists an orchestration call may receive: 0..MaxLenders
\* lenders with distinct identifiers.
LenderLists == { [i \in 1..n |-> LenderId(i)] : n \in 0..MaxLenders }

\* What the oracle call of one lender may end in.  The first three are
\* failures of the call itself; "malformed" is a 200 response whose text
\* json.loads rejects; "payload" is a response whose text parses into an
\* object with the given overall_match and confidence_score fields.
OracleFailures ==
    { [kind |-> k, overall_match |-> Absent, confidence_score |-> Absent]
        : k \in {"network", "http_status", "timeout", "malformed"} }

Payload(m, c) == [kind |-> "payload", overall_match |-> m, confidence_score |-> c]

OraclePayloads ==
    { Payload(Some(TRUE), Some(10)),   Payload(Some(TRUE), Some(50)),
      Payload(Some(TRUE), Some(80)),   Payload(Some(TRUE), Some(90)),
      Payload(Some(FALSE), Some(30)),  Payload(Some(FALSE), Some(50)),
      Payload(Some(FALSE), Some(90)),
      Payload(Absent, Some(90)),       Payload(Some(TRUE), Absent),
      Payload(Some(TRUE), Some(120)),  Payload(Some(FALSE), Some(120)),
      Payload(Some(FALSE), Some(-10)) }

OracleOutcomes == OracleFailures \cup OraclePayloads

\* The outcomes explored under the fair specification: a failed call, an
\* unparseable response, a matching and a non-matching payload.
LiveOutcomes ==
    { o \in OracleOutcomes :
        \/ o.kind \in {"timeout", "malformed"}
        \/ o = Payload(Some(TRUE), Some(90))
        \/ o = Payload(Some(FALSE), Some(30)) }

NoOutcome == [kind |-> "none", overall_match |-> Absent, confidence_score |-> Absent]

(* ------------------------ single-lender evaluator --------------------- *)

\* What gather stores for a task that raised.
RaisedException == [kind |-> "exception"]
\* Slot of a task that has not finished.
NotDone == [kind |-> "notdone"]
\* A LenderMatchDTO.
LenderMatchDTO(id, c) == [kind |-> "judgment", lender_id |-> id, confidence_score |-> c]

IsJudgment(r) == r.kind = "judgment"

\* Variant: a payload without overall_match taken for a match.
OverallMatchDefaultTrue(o) == IF o.overall_match = Absent THEN TRUE ELSE o.overall_match[1]

\* analysis.get('overall_match', False)
OverallMatchOf(o) == IF o.overall_match = Absent THEN FALSE ELSE o.overall_match[1]

\* analysis.get('confidence_score', 0.5)
BaseConfidenceOf(o) ==
    IF o.confidence_score = Absent THEN DefaultConfidence ELSE o.confidence_score[1]

\* Variant: the adjustment without its second branch.
AdjustConfidenceOneSided(overall_match, base_confidence) ==
    IF ~overall_match /\ base_confidence >= MatchThreshold THEN ClampUnmatched
    ELSE base_confidence

\* Variant: the oracle's confidence taken as reported.
AdjustConfidenceNone(overall_match, base_confidence) == base_confidence

\* The confidence adjustment of _convert_to_lender_match_dto.
AdjustConfidence(overall_match, base_confidence) ==
    IF ~overall_match /\ base_confidence >= MatchThreshold THEN ClampUnmatched
    ELSE IF overall_match /\ base_confidence < MatchThreshold THEN ClampMatched
    ELSE base_confidence

\* Variant: a confidence_score field without its range.
ValidConfidenceUnchecked(c) == c = c

\* Field(..., ge=0, le=1) of LenderMatchDTO.confidence_score.
ValidConfidence(c) == c >= MinConfidence /\ c <= MaxConfidence

\* _convert_to_lender_match_dto: the DTO, or the validation error that the
\* DTO's constructor raises.
ConvertToLenderMatchDTO(id, o) ==
    LET c == AdjustConfidence(OverallMatchOf(o), BaseConfidenceOf(o))
    IN  IF ValidConfidence(c) THEN LenderMatchDTO(id, c) ELSE RaisedException

\* The part of _evaluate_single_lender that follows the oracle call: every
\* failure is re-raised as an Exception, a parsed payload becomes a DTO.
EvaluateSingleLender(id, o) ==
    IF o.kind = "payload" THEN ConvertToLenderMatchDTO(id, o) ELSE RaisedException

(* ------------------ single-lender evaluator, in detail ---------------- *)
(* The response text is a sequence of characters.  The characters of the   *)
(* fence, of a language tag and of whitespace are kept one by one, since   *)
(* the cleaning counts them ("bq" is the backquote, "nl" the newline); a   *)
(* key/value pair of the JSON object is one character, since the cleaning  *)
(* never cuts inside the object.                                           *)

Whitespace == { " ", "nl" }

Fence == << "bq", "bq", "bq" >>
FenceJson == << "bq", "bq", "bq", "j", "s", "o", "n" >>
FencePy == << "bq", "bq", "bq", "p", "y" >>

\* str.strip()
RECURSIVE LStrip(_)
LStrip(s) == IF s # << >> /\ Head(s) \in Whitespace THEN LStrip(Tail(s)) ELSE s

RECURSIVE RStrip(_)
RStrip(s) ==
    IF s # << >> /\ s[Len(s)] \in Whitespace THEN RStrip(SubSeq(s, 1, Len(s) - 1)) ELSE s

Strip(s) == RStrip(LStrip(s))

\* str.startswith / str.endswith
StartsWith(s, p) == Len(s) >= Len(p) /\ SubSeq(s, 1, Len(p)) = p
EndsWith(s, p) == Len(s) >= Len(p) /\ SubSeq(s, Len(s) - Len(p) + 1, Len(s)) = p

\* text[n:] and text[:-n]
DropFirst(s, n) == SubSeq(s, n + 1, Len(s))
DropLast(s, n) == SubSeq(s, 1, Len(s) - n)

\* Variant: the opening fence removed without regard to the json tag.
CleanResponseTextNoTag(text) ==
    LET t0 == Strip(text)
        t1 == IF StartsWith(t0, Fence) THEN DropFirst(t0, FenceLen) ELSE t0
        t2 == IF EndsWith(t1, Fence) THEN DropLast(t1, FenceLen) ELSE t1
    IN  Strip(t2)

\* Variant: the closing fence left in place.
CleanResponseTextNoClose(text) ==
    LET t0 == Strip(text)
        t1 == IF StartsWith(t0, FenceJson) THEN DropFirst(t0, JsonFenceLen)
              ELSE IF StartsWith(t0, Fence) THEN DropFirst(t0, FenceLen)
              ELSE t0
    IN  Strip(t1)

\* _clean_response_text
CleanResponseText(text) ==
    LET t0 == Strip(text)
        t1 == IF StartsWith(t0, FenceJson) THEN DropFirst(t0, JsonFenceLen)
              ELSE IF StartsWith(t0, Fence) THEN DropFirst(t0, FenceLen)
              ELSE t0
        t2 == IF EndsWith(t1, Fence) THEN DropLast(t1, FenceLen) ELSE t1
    IN  Strip(t2)

\* The key/value pairs a JSON object of the oracle may carry:
\*   M1 M0            "overall_match": true / false
\*   C10 .. C120 Cneg "confidence_score": 0.1 .. 1.2 / -0.1
\*   S1 S0            "improvement_suggestions": [...] / null
\*   R1 R0 Rx         "criteria_evaluations" with one criterion whose
\*                    "reasoning" is a string / is null / is missing
MatchPairs == { "M1", "M0" }
ConfidencePairs == { "C10", "C50", "C80", "C90", "C120", "Cneg" }
SuggestionPairs == { "S1", "S0" }
CriterionPairs == { "R1", "R0", "Rx" }
Pairs == MatchPairs \cup ConfidencePairs \cup SuggestionPairs \cup CriterionPairs

ConfidenceValue(c) ==
    CASE c = "C10" -> 10 [] c = "C50" -> 50 [] c = "C80" -> 80
      [] c = "C90" -> 90 [] c = "C120" -> 120 [] c = "Cneg" -> -10

\* The value json.loads gives a key: that of its last pair in the object,
\* Absent when the object has no pair of the key.
LastPair(inner, keyPairs) ==
    LET at == { k \in 1..Len(inner) : inner[k] \in keyPairs }
    IN  IF at = {} THEN Absent
        ELSE Some(inner[CHOOSE k \in at : \A l \in at : l <= k])

\* json.loads on the text: the text must be an object, "{", pairs separated
\* by ",", "}"; anything else is a JSONDecodeError.
IsJsonObject(t) ==
    /\ Len(t) >= 2
    /\ t[1] = "{"
    /\ t[Len(t)] = "}"
    /\ LET inner == SubSeq(t, 2, Len(t) - 1)
       IN  \/ inner = << >>
           \/ /\ Len(inner) % 2 = 1
              /\ \A k \in 1..Len(inner) :
                    IF k % 2 = 1 THEN inner[k] \in Pairs ELSE inner[k] = ","

NoAnalysis ==
    [ kind |-> "none", overall_match |-> Absent, confidence_score |-> Absent,
      improvement_suggestions |-> Absent, criterion |-> Absent ]

JsonLoads(t) ==
    IF ~IsJsonObject(t) THEN [ok |-> FALSE, analysis |-> NoAnalysis]
    ELSE LET inner == SubSeq(t, 2, Len(t) - 1)
             m == LastPair(inner, MatchPairs)
             c == LastPair(inner, ConfidencePairs)
         IN  [ ok |-> TRUE,
               analysis |->
                 [ kind |-> "payload",
                   overall_match |-> IF m = Absent THEN Absent ELSE Some(m[1] = "M1"),
                   confidence_score |->
                       IF c = Absent THEN Absent ELSE Some(ConfidenceValue(c[1])),
                   improvement_suggestions |-> LastPair(inner, SuggestionPairs),
                   criterion |-> LastPair(inner, CriterionPairs) ] ]

\* self._fix_json_issues(cleaned_text): EligibilityService defines no such
\* method, so the call raises AttributeError.
FixJsonIssues(t) == [ok |-> FALSE, text |-> t]

\* Variant: a second repair attempted when the first one fails.
ParseWithRepairAgain(t) ==
    LET first == JsonLoads(t)
    IN  IF first.ok
        THEN [ok |-> TRUE, analysis |-> first.analysis, parses |-> 1, repairs |-> 0]
        ELSE [ok |-> FALSE, analysis |-> NoAnalysis, parses |-> 1, repairs |-> 2]

\* Lines 152-162: parse; on JSONDecodeError repair and parse once more.
\* `parses` and `repairs` count the calls of json.loads and of the repair.
ParseWithRepair(t) ==
    LET first == JsonLoads(t)
    IN  IF first.ok
        THEN [ok |-> TRUE, analysis |-> first.analysis, parses |-> 1, repairs |-> 0]
        ELSE LET fixed == FixJsonIssues(t)
             IN  IF ~fixed.ok
                 THEN [ok |-> FALSE, analysis |-> NoAnalysis, parses |-> 1, repairs |-> 1]
                 ELSE LET second == JsonLoads(fixed.text)
                      IN  [ ok |-> second.ok, analysis |-> second.analysis,
                            parses |-> 2, repairs |-> 1 ]

\* A LenderMatchDTO with its optional parts.  improvement_suggestions is
\* empty (the list []), null (None) or list; criterion_reasoning is none
\* (no criterion), empty (the empty string) or text.
LenderMatchDetailDTO(id, c, suggestions, reasoning) ==
    [ kind |-> "judgment", lender_id |-> id, confidence_score |-> c,
      improvement_suggestions |-> suggestions, criterion_reasoning |-> reasoning ]

\* analysis.get('improvement_suggestions', [])
SuggestionsOf(a) ==
    IF a.improvement_suggestions = Absent THEN "empty"
    ELSE IF a.improvement_suggestions[1] = "S0" THEN "null" ELSE "list"

\* crit.get('reasoning', <empty string>); None for a reasoning of null.
ReasoningOf(a) ==
    IF a.criterion = Absent THEN "none"
    ELSE IF a.criterion[1] = "Rx" THEN "empty"
    ELSE IF a.criterion[1] = "R0" THEN "null" ELSE "text"

\* _convert_to_lender_match_dto with the criteria evaluations and the
\* suggestions: CriteriaEvaluationDTO.reasoning is a required str, so a
\* reasoning of None raises a validation error; improvement_suggestions is
\* Optional and takes None.
ConvertAnalysis(id, a) ==
    IF ReasoningOf(a) = "null" THEN RaisedException
    ELSE LET dto == ConvertToLenderMatchDTO(id, a)
         IN  IF IsJudgment(dto)
             THEN LenderMatchDetailDTO(id, dto.confidence_score,
                                       SuggestionsOf(a), ReasoningOf(a))
             ELSE RaisedException

\* An application as create_application stores it: model_dump() writes None
\* for every optional fact left out.  "null" is None, "value" a number.
ApplicationSnapshots ==
    [ annual_revenue : {"null", "value"}, number_of_employees : {"null", "value"},
      paynet_score : {"null", "value"}, equipment_age_years : {"null", "value"},
      equipment_mileage : {"null", "value"} ]

\* format_application_data: `{business.get('annual_revenue', 0):,.2f}`
\* raises TypeError on None; the other optional facts are formatted with
\* `{...}`, which prints None.
FormatApplicationData(app) == app.annual_revenue # "null"

\* The JSON objects the oracle may answer with, well formed or not.  "R^"
\* is a criterion whose reasoning string holds an unescaped control
\* character, "x" is text that is no JSON at all.
ResponseBodies ==
    { << "{", "M1", ",", "C90", ",", "S1", ",", "R1", "}" >>,
      << "{", "M1", ",", "C90", "}" >>,
      << "{", "M0", ",", "C90", ",", "Rx", "}" >>,
      << "{", "M1", ",", "C10", ",", "S0", ",", "R1", "}" >>,
      << "{", "M1", ",", "C90", ",", "S1", ",", "R0", "}" >>,
      << "{", "M1", ",", "C80", ",", "}" >>,
      << "{", "M1", ",", "C80", ",", "R^", "}" >>,
      << "{", "M1", ",", "C120", "}" >>,
      << "{", "M0", ",", "C120", "}" >>,
      << "{", "M0", ",", "Cneg", "}" >>,
      << "{", "M1", ",", "Cneg", "}" >>,
      << "{", "}" >>,
      << "{", "C90", "}" >>,
      << "{", "Cneg", "}" >>,
      << "{", "M1", "}" >>,
      << "{", "M0", "}" >>,
      << "x" >> }

\* How the oracle may wrap the object: whitespace, an opening fence (bare,
\* tagged json, tagged py), a separator, the object, a separator, a closing
\* fence, whitespace.
ResponseParts ==
    [ lead  : { << >>, << " " >> },
      open  : { << >>, Fence, FenceJson, FencePy },
      sep   : { << >>, << "nl" >> },
      body  : ResponseBodies,
      sep2  : { << >>, << "nl" >> },
      close : { << >>, Fence },
      trail : { << >>, << "nl" >> } ]

ResponseText(p) == p.lead \o p.open \o p.sep \o p.body \o p.sep2 \o p.close \o p.trail

NoParts ==
    [ lead |-> << >>, open |-> << >>, sep |-> << >>, body |-> << >>,
      sep2 |-> << >>, close |-> << >>, trail |-> << >> ]

\* How the oracle call of the detailed evaluator may end: a failure of the
\* call, or a 200 response with a text.
CallFailures == { "network", "http_status", "timeout" }

OracleResponses ==
    { [kind |-> k, parts |-> NoParts] : k \in CallFailures }
      \cup { [kind |-> "text", parts |-> p] : p \in ResponseParts }

\* cleaned_text[:n]
Truncate(t, n) == SubSeq(t, 1, IF Len(t) < n THEN Len(t) ELSE n)

\* What a raised exception is made of: its type, the error it was raised
\* for, and the text of the oracle's 200 response held in its message.
NoError == [ type |-> "none", cause |-> "none", raw_text |-> << >> ]

RaisedFor(cause) == [ type |-> "Exception", cause |-> cause, raw_text |-> << >> ]

\* Variant: the failure of the parsing carrying the truncated text.
ParseFailureCarrying(cleaned) ==
    [ type |-> "MalformedResponseError", cause |-> "JSONDecodeError",
      raw_text |-> Truncate(cleaned, DiagnosticLen) ]

\* Lines 154-162 and 176-183 when the text does not parse: the repair call
\* raises AttributeError, which `except Exception` wraps with str(e); a
\* second json.loads that fails is wrapped by `except json.JSONDecodeError`
\* with str(e), the position of the error.  Neither message holds the text.
ParseFailure(cleaned) ==
    RaisedFor(IF FixJsonIssues(cleaned).ok THEN "JSONDecodeError" ELSE "AttributeError")

\* Lines 142-169 on a response: the text is cleaned, parsed (and repaired)
\* and converted; every failure leaves the evaluator as an exception.
ProcessResponse(id, r) ==
    IF r.kind # "text"
    THEN [ cleaned |-> << >>, parses |-> 0, repairs |-> 0, result |-> RaisedException,
           error |-> RaisedFor(r.kind) ]
    ELSE LET cleaned == CleanResponseText(ResponseText(r.parts))
             parsed == ParseWithRepair(cleaned)
             result == IF parsed.ok THEN ConvertAnalysis(id, parsed.analysis)
                       ELSE RaisedException
         IN  [ cleaned |-> cleaned, parses |-> parsed.parses,
               repairs |-> parsed.repairs,
               result |-> result,
               error |-> IF ~parsed.ok THEN ParseFailure(cleaned)
                         ELSE IF result = RaisedException THEN RaisedFor("ValidationError")
                         ELSE NoError ]

(* ----------------------------- coordinator ---------------------------- *)

\* Stable insertion of x into a list sorted by descending confidence:
\* x goes behind every entry whose confidence is >= its own.
RECURSIVE InsertDesc(_, _)
InsertDesc(s, x) ==
    IF s = << >> THEN << x >>
    ELSE IF Head(s).confidence_score >= x.confidence_score
         THEN << Head(s) >> \o InsertDesc(Tail(s), x)
         ELSE << x >> \o s

\* Variant: the list left in the order of the results.
Unsorted(s) == s

\* list.sort(key=lambda x: x.confidence_score, reverse=True): a stable sort
\* by descending confidence.
RECURSIVE SortByConfidenceDesc(_)
SortByConfidenceDesc(s) ==
    IF s = << >> THEN << >>
    ELSE InsertDesc(SortByConfidenceDesc(SubSeq(s, 1, Len(s) - 1)), s[Len(s)])

\* Lines 70-77: an exception is skipped, a judgment goes to the matched
\* list when its confidence reaches the threshold, else to the unmatched.
IsMatchedStrict(r) == r.confidence_score > MatchThreshold

IsMatched(r) == r.confidence_score >= MatchThreshold

MatchedOf(rs) == SelectSeq(rs, LAMBDA r : IsJudgment(r) /\ IsMatched(r))

UnmatchedOf(rs) == SelectSeq(rs, LAMBDA r : IsJudgment(r) /\ ~IsMatched(r))

\* Variant: the number of judgments obtained.
TotalSuccessful(lenderList, rs) == Len(SelectSeq(rs, IsJudgment))

\* total_lenders_evaluated=len(lenders_with_criteria)
TotalLendersEvaluated(lenderList, rs) == Len(lenderList)

\* Variant: gather without return_exceptions, raising a task's exception.
GatherRaising(res, order) ==
    [raised |-> \E i \in DOMAIN res : res[i].kind = "exception", results |-> res]

\* Variant: the results collected in the order the tasks finished.
GatherCompletionOrder(res, order) ==
    [raised |-> FALSE, results |-> [k \in 1..Len(order) |-> res[order[k]]]]

\* asyncio.gather(*evaluation_tasks, return_exceptions=True): the results
\* in the order of the tasks, an exception standing in the slot of the task
\* that raised it; nothing is raised to the caller.  `order` is the order
\* in which the tasks finished, which gather does not use.
Gather(res, order) == [raised |-> FALSE, results |-> res]

\* Variant: the coordinator resumed by the first task to finish.
JoinFirstCompleted(t) == \E i \in DOMAIN t : t[i] = "done"

\* gather resumes the coordinator when every task has finished.
JoinReady(t) == \A i \in DOMAIN t : t[i] = "done"

\* Lines 64-89: partition, sort and assemble the EligibilityResultDTO.
EligibilityResultDTO(lenderList, rs) ==
    [ matched_lenders         |-> SortByConfidenceDesc(MatchedOf(rs)),
      unmatched_lenders       |-> SortByConfidenceDesc(UnmatchedOf(rs)),
      total_lenders_evaluated |-> TotalLendersEvaluated(lenderList, rs) ]

NoReport == [ matched_lenders |-> << >>, unmatched_lenders |-> << >>,
              total_lenders_evaluated |-> -1 ]

\* Variant: the route without its check of the lender list.
NoLendersUnchecked(lenderList) == FALSE

\* application_routes.py, `if not lenders:`
NoLenders(lenderList) == lenderList = << >>

\* Variant: a task that raised is scheduled again.
TaskStateRetrying(r) == IF IsJudgment(r) THEN "done" ELSE "created"

\* _evaluate_single_lender returns its DTO or raises (lines 165-183): in
\* both cases the task is finished, there is no loop around the request.
TaskStateAfter(r) == "done"

\* Variant: the evaluator taking the identifier out of its lender.
LendersAfterPop(lenderList, i) == [lenderList EXCEPT ![i] = 0]

\* _evaluate_single_lender reads lender_data and application_data with
\* .get (lines 109-118) and writes neither: the lender list after the
\* evaluation of lender i.
LendersAfterEvaluation(lenderList, i) == lenderList

\* Variant: the coordinator awaiting the coroutines one after the other.
StartSequential(taskStates, i) == \A j \in 1..(i - 1) : taskStates[j] = "done"

\* asyncio.gather(*evaluation_tasks) (line 62) schedules every coroutine at
\* once; the event loop starts them in the order gather received them, and
\* task i starts as soon as the tasks before it have reached their await.
StartReady(taskStates, i) == \A j \in 1..(i - 1) : taskStates[j] # "created"

\* The lender the detailed evaluator works for.
EvLender == LenderId(1)

NoResponse == [kind |-> "none", parts |-> NoParts]

\* The detailed evaluator when it is not run.
EvOff ==
    [ pc |-> "off", app |-> [ annual_revenue |-> "value", number_of_employees |-> "value",
                              paynet_score |-> "value", equipment_age_years |-> "value",
                              equipment_mileage |-> "value" ],
      calls |-> 0, response |-> NoResponse, cleaned |-> << >>,
      parses |-> 0, repairs |-> 0, result |-> NotDone,
      error |-> NoError ]

(* -------------------------- application routes ----------------------- *)

HttpOk == 200
HttpCreated == 201
HttpNotFound == 404
HttpServerError == 500

\* A document of the loan_applications collection, and its absence.
NoApp == [ stored |-> FALSE, status |-> "none", data |-> "none" ]

StoredApp(status) == [ stored |-> TRUE, status |-> status, data |-> "application" ]

\* The application routes when none is called.
RtOff ==
    [ pc |-> "off", handler |-> "none", id |-> "none", app |-> NoApp,
      created |-> FALSE, listed |-> FALSE ]

\* The requests explored: a submission, and a re-evaluation of an
\* application that is stored as pending or as evaluated, asked for by its
\* id, by an id that no application has, or by a string that is no ObjectId.
RouteRequests ==
    { [RtOff EXCEPT !.pc = "start", !.handler = "submit"] }
      \cup { [RtOff EXCEPT !.pc = "start", !.handler = "evaluate", !.id = i,
                           !.app = StoredApp(st)]
               : i \in {"known", "unknown", "malformed"},
                 st \in {"pending", "evaluated"} }

\* Variant: the status written as soon as the evaluation has been started.
StatusUpdateEarly(orchestratorPc) == orchestratorPc \in {"gathering", "returned"}

\* submit_and_evaluate_application, lines 91-98: update_application_status
\* is called after the await of evaluate_application has returned.
StatusUpdateReady(orchestratorPc) == orchestratorPc = "returned"

\* Variant: both routes marking the application as evaluated.
UpdatesStatusAlways(handler) == handler \in {"submit", "evaluate"}

\* Only submit_and_evaluate_application calls update_application_status
\* (line 98); evaluate_existing_application returns the report (line 177).
UpdatesStatus(handler) == handler = "submit"

\* Variant: the application removed when the request fails.
AppRolledBack(app) == NoApp

\* Lines 105-111 / 179-185: the error is turned into an HTTP error; the
\* handlers undo nothing.
AppAfterFailure(app) == app

(* -------------------------- lender management ------------------------- *)

\* The lender ids requests name, and the id insert_one gives the lender
\* that the upload creates.
LmIds == { LenderId(1), LenderId(2) }
NewLenderId == LenderId(3)

\* An extracted criterion: complete, or with an empty or null criteria_key,
\* or with an empty or null display_name.
CriterionKinds == { "ok", "nokey", "noname" }

ExtractedLists ==
    UNION { [1..n -> CriterionKinds] : n \in 0..MaxExtracted }

\* An upload: whether the file name ends in .pdf, whether the text of the
\* extraction call parses, and the criteria it holds.
UploadFiles == [ pdf : BOOLEAN, parseable : BOOLEAN, extracted : ExtractedLists ]

NoFile == [ pdf |-> FALSE, parseable |-> FALSE, extracted |-> << >> ]

NoDelete == [ pc |-> "idle", id |-> 0, http |-> 0, remaining |-> 0 ]

NoUpload == [ done |-> FALSE, file |-> NoFile, http |-> 0, lender_id |-> 0,
              criteria_count |-> 0 ]

\* The lender routes when none is called.
LmOff ==
    [ pc |-> "off", lenders |-> {},
      criteria |-> [l \in LmIds \cup {NewLenderId} |-> 0],
      del |-> NoDelete, up |-> NoUpload ]

\* The parameters extract_criteria_from_pdf declares (pdf_service.py,
\* lines 27-30) and the keyword arguments upload_lender_pdf passes
\* (lender_routes.py, lines 109-112).
ExtractParameters == { "pdf_content" }
UploadCallArguments == { "pdf_content", "lender_name" }

\* The call of extract_criteria_from_pdf: a keyword argument that the
\* method does not declare raises TypeError before the body runs; a text
\* that does not parse raises ValueError; else the parsed data.
ExtractCriteriaFromPdf(arguments, file) ==
    IF ~(arguments \subseteq ExtractParameters)
    THEN [ ok |-> FALSE, error |-> "TypeError", criteria |-> << >> ]
    ELSE IF ~file.parseable
    THEN [ ok |-> FALSE, error |-> "ValueError", criteria |-> << >> ]
    ELSE [ ok |-> TRUE, error |-> "none", criteria |-> file.extracted ]

\* Lines 135-159: a criterion with an empty criteria_key or display_name
\* is skipped.
KeptCriteria(extracted) == SelectSeq(extracted, LAMBDA c : c = "ok")

\* upload_lender_pdf, lines 100-174, on the collections in store.
UploadLenderPdfResult(store, file) ==
    IF ~file.pdf
    THEN [store EXCEPT !.up = [NoUpload EXCEPT !.done = TRUE, !.file = file,
                                               !.http = HttpBadRequest]]
    ELSE LET extraction == ExtractCriteriaFromPdf(UploadCallArguments, file)
         IN  IF ~extraction.ok
             THEN [store EXCEPT !.up = [NoUpload EXCEPT !.done = TRUE, !.file = file,
                                                        !.http = HttpServerError]]
             ELSE LET created == Len(KeptCriteria(extraction.criteria))
                  IN  [store EXCEPT
                          !.lenders = @ \cup {NewLenderId},
                          !.criteria[NewLenderId] = @ + created,
                          !.up = [ done |-> TRUE, file |-> file, http |-> HttpCreated,
                                   lender_id |-> NewLenderId,
                                   criteria_count |-> created ]]

(* ------------------------------- state -------------------------------- *)

VARIABLES
    pc,           \* position of the orchestration call
    entry,        \* who called: "route", "direct", or "none" before the call
    lenders,      \* the lender list (identifiers, in submission order)
    promptOk,     \* whether the prompt can be built from the application data
    task,         \* per lender: "none", "created", "pending", "done"
    oracle,       \* per lender: what its oracle call ended in
    oracleCalls,  \* per lender: number of oracle requests issued
    results,      \* per lender: the task's result (DTO or exception)
    completion,   \* indices of the finished tasks, in order of finishing
    report,       \* the EligibilityResultDTO returned, or NoReport
    httpStatus,   \* status of the route's error response, 0 when none
    ev,           \* one single-lender evaluation followed in detail
    rt,           \* one request to an application route and its application
    lm            \* the lender and criteria collections and their routes

vars == << pc, entry, lenders, promptOk, task, oracle, oracleCalls, results,
           completion, report, httpStatus, ev, rt, lm >>

N == Len(lenders)

Init ==
    /\ pc = "idle"
    /\ entry = "none"
    /\ lenders \in LenderLists
    /\ promptOk \in BOOLEAN
    /\ task = [i \in 1..Len(lenders) |-> "none"]
    /\ oracle = [i \in 1..Len(lenders) |-> NoOutcome]
    /\ oracleCalls = [i \in 1..Len(lenders) |-> 0]
    /\ results = [i \in 1..Len(lenders) |-> NotDone]
    /\ completion = << >>
    /\ report = NoReport
    /\ httpStatus = 0
    /\ ev = EvOff
    /\ rt = RtOff
    /\ lm = LmOff

(* ------------------------------ actions ------------------------------- *)

\* evaluate_application, lines 55-62: one coroutine per lender, handed to
\* gather, which the coordinator then awaits.
StartEvaluation ==
    /\ task' = [i \in 1..N |-> "created"]
    /\ pc' = "gathering"

\* submit_and_evaluate_application / evaluate_existing_application: list
\* the lenders, answer 400 when there is none, else call the orchestrator.
RouteEvaluate ==
    /\ pc = "idle"
    /\ entry' = "route"
    /\ IF NoLenders(lenders)
       THEN /\ pc' = "http_error"
            /\ httpStatus' = HttpBadRequest
            /\ UNCHANGED task
       ELSE /\ StartEvaluation
            /\ UNCHANGED httpStatus
    /\ UNCHANGED << lenders, promptOk, oracle, oracleCalls, results,
                    completion, report, ev, rt, lm >>

\* A direct call of eligibility_service.evaluate_application.
DirectEvaluate ==
    /\ pc = "idle"
    /\ entry' = "direct"
    /\ StartEvaluation
    /\ UNCHANGED << lenders, promptOk, oracle, oracleCalls, results,
                    completion, report, httpStatus, ev, rt, lm >>

\* _evaluate_single_lender, lines 109-141: the task builds its prompt and
\* request body and posts the request.  An error of the prompt construction
\* is raised by the coroutine before any request is sent.  The event loop
\* starts the tasks in the order gather received them.
TaskStart(i) ==
    /\ pc = "gathering"
    /\ task[i] = "created"
    /\ StartReady(task, i)
    /\ IF promptOk
       THEN /\ task' = [task EXCEPT ![i] = "pending"]
            /\ oracleCalls' = [oracleCalls EXCEPT ![i] = @ + 1]
            /\ UNCHANGED << results, completion >>
       ELSE /\ task' = [task EXCEPT ![i] = "done"]
            /\ results' = [results EXCEPT ![i] = RaisedException]
            /\ completion' = Append(completion, i)
            /\ UNCHANGED oracleCalls
    /\ lenders' = LendersAfterEvaluation(lenders, i)
    /\ UNCHANGED << pc, entry, promptOk, oracle, report, httpStatus, ev, rt, lm >>

\* _evaluate_single_lender, lines 142-183: the oracle call of lender i ends
\* in outcome o, and the task returns its DTO or raises.
TaskComplete(i, o) ==
    /\ pc = "gathering"
    /\ task[i] = "pending"
    /\ oracle' = [oracle EXCEPT ![i] = o]
    /\ results' = [results EXCEPT ![i] = EvaluateSingleLender(lenders[i], o)]
    /\ task' = [task EXCEPT ![i] = TaskStateAfter(EvaluateSingleLender(lenders[i], o))]
    /\ completion' = Append(completion, i)
    /\ UNCHANGED << pc, entry, lenders, promptOk, oracleCalls, report, httpStatus, ev, rt, lm >>

\* evaluate_application, lines 62-89: gather hands over the results, the
\* coordinator partitions and sorts them and returns the report.
Join ==
    /\ pc = "gathering"
    /\ JoinReady(task)
    /\ LET g == Gather(results, completion)
       IN  IF g.raised
           THEN /\ pc' = "raised"
                /\ UNCHANGED report
           ELSE /\ pc' = "returned"
                /\ report' = EligibilityResultDTO(lenders, g.results)
    /\ UNCHANGED << entry, lenders, promptOk, task, oracle, oracleCalls,
                    results, completion, httpStatus, ev, rt, lm >>

Next ==
    \/ RouteEvaluate
    \/ DirectEvaluate
    \/ \E i \in 1..N : TaskStart(i)
    \/ \E i \in 1..N : \E o \in OracleOutcomes : TaskComplete(i, o)
    \/ Join

Spec == Init /\ [][Next]_vars

\* The same steps with the oracle outcomes drawn from LiveOutcomes.
NextLive ==
    \/ RouteEvaluate
    \/ DirectEvaluate
    \/ \E i \in 1..N : TaskStart(i)
    \/ \E i \in 1..N : \E o \in LiveOutcomes : TaskComplete(i, o)
    \/ Join

\* The event loop runs every ready task, every oracle call ends (response,
\* error, or the 60 second timeout), and gather resumes the coordinator.
FairSpec ==
    /\ Init /\ [][NextLive]_vars
    /\ \A i \in 1..MaxLenders : WF_vars(i \in DOMAIN task /\ TaskStart(i))
    /\ \A i \in 1..MaxLenders :
          WF_vars(i \in DOMAIN task /\ \E o \in LiveOutcomes : TaskComplete(i, o))
    /\ WF_vars(Join)

\* The single-lender evaluator alone: the orchestrator stays idle with no
\* lender, the evaluator runs once on an application and a response.
EvalInit ==
    /\ pc = "idle"
    /\ entry = "none"
    /\ lenders = << >>
    /\ promptOk = TRUE
    /\ task = << >>
    /\ oracle = << >>
    /\ oracleCalls = << >>
    /\ results = << >>
    /\ completion = << >>
    /\ report = NoReport
    /\ httpStatus = 0
    /\ \E app \in ApplicationSnapshots :
          ev = [EvOff EXCEPT !.pc = "start", !.app = app]
    /\ rt = RtOff
    /\ lm = LmOff

\* _evaluate_single_lender, lines 109-141: the prompt is built from the
\* application data and the request is posted; an error of the prompt
\* construction ends the evaluation before any request.
EvBuildPrompt ==
    /\ ev.pc = "start"
    /\ IF FormatApplicationData(ev.app)
       THEN ev' = [ev EXCEPT !.pc = "requested", !.calls = @ + 1]
       ELSE ev' = [ev EXCEPT !.pc = "done", !.result = RaisedException,
                             !.error = [NoError EXCEPT !.type = "TypeError",
                                                       !.cause = "TypeError"]]
    /\ UNCHANGED << pc, entry, lenders, promptOk, task, oracle, oracleCalls,
                    results, completion, report, httpStatus, rt, lm >>

\* _evaluate_single_lender, lines 142-183: the oracle call ends in response
\* r, which is cleaned, parsed and converted.
EvRespond(r) ==
    /\ ev.pc = "requested"
    /\ LET out == ProcessResponse(EvLender, r)
       IN  ev' = [ev EXCEPT !.pc = "done", !.response = r,
                            !.cleaned = out.cleaned, !.parses = out.parses,
                            !.repairs = out.repairs, !.result = out.result,
                            !.error = out.error]
    /\ UNCHANGED << pc, entry, lenders, promptOk, task, oracle, oracleCalls,
                    results, completion, report, httpStatus, rt, lm >>

EvalNext ==
    \/ EvBuildPrompt
    \/ \E r \in OracleResponses : EvRespond(r)

EvalSpec == EvalInit /\ [][EvalNext]_vars

\* The orchestrator and the other routes as a request to an application
\* route leaves them.
RtFrame == UNCHANGED << lenders, promptOk, oracle, oracleCalls, results,
                        completion, report, ev, lm >>

\* A request to an application route arrives.
RouteInit ==
    /\ pc = "idle"
    /\ entry = "none"
    /\ lenders \in LenderLists
    /\ promptOk \in BOOLEAN
    /\ task = [i \in 1..Len(lenders) |-> "none"]
    /\ oracle = [i \in 1..Len(lenders) |-> NoOutcome]
    /\ oracleCalls = [i \in 1..Len(lenders) |-> 0]
    /\ results = [i \in 1..Len(lenders) |-> NotDone]
    /\ completion = << >>
    /\ report = NoReport
    /\ httpStatus = 0
    /\ ev = EvOff
    /\ lm = LmOff
    /\ rt \in RouteRequests

\* submit_and_evaluate_application, line 64: create_application inserts
\* the application with status "pending".
SubmitCreate ==
    /\ rt.pc = "start"
    /\ rt.handler = "submit"
    /\ rt' = [rt EXCEPT !.pc = "created", !.app = StoredApp("pending"),
                        !.created = TRUE]
    /\ UNCHANGED << pc, entry, task, httpStatus >>
    /\ RtFrame

\* get_application_data_dict (line 68 / lines 142-148): an id that is no
\* ObjectId raises, an id without application gives None and the
\* re-evaluation answers 404.
RtGetData ==
    /\ \/ rt.handler = "submit" /\ rt.pc = "created"
       \/ rt.handler = "evaluate" /\ rt.pc = "start"
    /\ IF rt.handler = "evaluate" /\ rt.id = "malformed"
       THEN /\ httpStatus' = HttpServerError
            /\ rt' = [rt EXCEPT !.pc = "responded", !.app = AppAfterFailure(@)]
       ELSE IF rt.handler = "evaluate" /\ rt.id = "unknown"
       THEN /\ httpStatus' = HttpNotFound
            /\ rt' = [rt EXCEPT !.pc = "responded", !.app = AppAfterFailure(@)]
       ELSE /\ rt' = [rt EXCEPT !.pc = "fetched"]
            /\ UNCHANGED httpStatus
    /\ UNCHANGED << pc, entry, task >>
    /\ RtFrame

\* Lines 74-88 / 154-168: list the lenders, answer 400 when there is none,
\* else fetch the criteria of each.
RtListLenders ==
    /\ rt.pc = "fetched"
    /\ IF NoLenders(lenders)
       THEN /\ httpStatus' = HttpBadRequest
            /\ rt' = [rt EXCEPT !.pc = "responded", !.listed = TRUE,
                                !.app = AppAfterFailure(@)]
       ELSE /\ rt' = [rt EXCEPT !.pc = "listed", !.listed = TRUE]
            /\ UNCHANGED httpStatus
    /\ UNCHANGED << pc, entry, task >>
    /\ RtFrame

\* Lines 91-95 / 171-175: the call of evaluate_application.
RtEvaluate ==
    /\ rt.pc = "listed"
    /\ pc = "idle"
    /\ entry' = "route"
    /\ StartEvaluation
    /\ rt' = [rt EXCEPT !.pc = "evaluating"]
    /\ UNCHANGED httpStatus
    /\ RtFrame

\* Line 98: the status of the application becomes "evaluated".
RtUpdateStatus ==
    /\ rt.pc = "evaluating"
    /\ UpdatesStatus(rt.handler)
    /\ StatusUpdateReady(pc)
    /\ rt' = [rt EXCEPT !.pc = "updated", !.app.status = "evaluated"]
    /\ UNCHANGED << pc, entry, task, httpStatus >>
    /\ RtFrame

\* Lines 100-103 / 177: the response, 201 for a submission and 200 for a
\* re-evaluation.
RtRespond ==
    /\ \/ rt.pc = "updated"
       \/ rt.pc = "evaluating" /\ pc = "returned" /\ ~UpdatesStatus(rt.handler)
    /\ httpStatus' = (IF rt.handler = "submit" THEN HttpCreated ELSE HttpOk)
    /\ rt' = [rt EXCEPT !.pc = "responded"]
    /\ UNCHANGED << pc, entry, task >>
    /\ RtFrame

\* Lines 107-111 / 181-185: a call to the database raises, or
\* evaluate_application does, and the handler answers 500.
RtFail ==
    /\ \/ rt.pc \in {"start", "created", "fetched", "listed"}
       \/ rt.pc = "evaluating" /\ pc = "returned" /\ UpdatesStatus(rt.handler)
       \/ rt.pc = "evaluating" /\ pc = "raised"
    /\ httpStatus' = HttpServerError
    /\ rt' = [rt EXCEPT !.pc = "responded", !.app = AppAfterFailure(@)]
    /\ UNCHANGED << pc, entry, task >>
    /\ RtFrame

RouteNext ==
    \/ SubmitCreate
    \/ RtGetData
    \/ RtListLenders
    \/ RtEvaluate
    \/ \E i \in 1..N : TaskStart(i)
    \/ \E i \in 1..N : \E o \in LiveOutcomes : TaskComplete(i, o)
    \/ Join
    \/ RtUpdateStatus
    \/ RtRespond
    \/ RtFail

RouteSpec == RouteInit /\ [][RouteNext]_vars

\* The application routes and the orchestrator as a request to a lender
\* route leaves them.
LmFrame == UNCHANGED << pc, entry, lenders, promptOk, task, oracle, oracleCalls,
                        results, completion, report, httpStatus, ev, rt >>

\* The collections as requests to the lender routes find them: any of the
\* lenders stored, with up to MaxCriteria criteria under each lender id.
LenderInit ==
    /\ pc = "idle"
    /\ entry = "none"
    /\ lenders = << >>
    /\ promptOk = TRUE
    /\ task = << >>
    /\ oracle = << >>
    /\ oracleCalls = << >>
    /\ results = << >>
    /\ completion = << >>
    /\ report = NoReport
    /\ httpStatus = 0
    /\ ev = EvOff
    /\ rt = RtOff
    /\ \E stored \in SUBSET LmIds, n1 \in 0..MaxCriteria, n2 \in 0..MaxCriteria :
          lm = [LmOff EXCEPT !.pc = "on", !.lenders = stored,
                             !.criteria[LenderId(1)] = n1,
                             !.criteria[LenderId(2)] = n2]

\* delete_lender, lines 76-77: delete_many removes the criteria of the id.
DeleteCriteriaByLender(id) ==
    /\ lm.pc = "on"
    /\ lm.del.pc = "idle"
    /\ lm' = [lm EXCEPT !.criteria[id] = 0,
                        !.del = [NoDelete EXCEPT !.pc = "criteria_deleted", !.id = id]]
    /\ LmFrame

\* delete_lender, lines 79-84: delete_one removes the lender; 404 when
\* there was none.  `remaining` is the number of criteria stored under the
\* id when the handler returns.
DeleteLenderDoc ==
    /\ lm.del.pc = "criteria_deleted"
    /\ lm' = [lm EXCEPT !.lenders = @ \ {lm.del.id},
                        !.del.pc = "done",
                        !.del.http = (IF lm.del.id \in lm.lenders THEN HttpOk
                                      ELSE HttpNotFound),
                        !.del.remaining = lm.criteria[lm.del.id]]
    /\ LmFrame

\* delete_lender, lines 87-88: a call to the database raises.
DeleteFail ==
    /\ lm.pc = "on"
    /\ lm.del.pc \in {"idle", "criteria_deleted"}
    /\ lm' = [lm EXCEPT !.del.pc = "done", !.del.http = HttpServerError]
    /\ LmFrame

\* create_criteria (criteria_routes.py lines 12-18, criteria_service.py
\* lines 16-44): the criterion is inserted under its lender_id, whether or
\* not a lender has that id.
CreateCriteria(id) ==
    /\ lm.pc = "on"
    /\ lm.criteria[id] < MaxCriteria
    /\ lm' = [lm EXCEPT !.criteria[id] = @ + 1]
    /\ LmFrame

\* upload_lender_pdf, the whole handler.
UploadLenderPdf(file) ==
    /\ lm.pc = "on"
    /\ ~lm.up.done
    /\ lm' = UploadLenderPdfResult(lm, file)
    /\ LmFrame

LenderNext ==
    \/ \E id \in LmIds : DeleteCriteriaByLender(id)
    \/ DeleteLenderDoc
    \/ DeleteFail
    \/ \E id \in LmIds : CreateCriteria(id)
    \/ \E file \in UploadFiles : UploadLenderPdf(file)

LenderSpec == LenderInit /\ [][LenderNext]_vars

TypeOK ==
    /\ pc \in {"idle", "gathering", "returned", "raised", "http_error"}
    /\ entry \in {"none", "route", "direct"}
    /\ lenders \in LenderLists
    /\ \A i \in 1..N : task[i] \in {"none", "created", "pending", "done"}

(* ------------------------- report vocabulary -------------------------- *)

Returned == pc = "returned"

IdsOf(list) == { list[k].lender_id : k \in 1..Len(list) }

ReportIds == IdsOf(report.matched_lenders) \cup IdsOf(report.unmatched_lenders)

\* Lenders whose evaluation produced a judgment / ended in a failure.
SucceededLenders == { i \in 1..N : task[i] = "done" /\ IsJudgment(results[i]) }
FailedLenders == { i \in 1..N : task[i] = "done" /\ ~IsJudgment(results[i]) }

\* Position of a lender identifier in the submitted list.
SubmissionIndex(id) == CHOOSE i \in 1..N : lenders[i] = id

(* ------------------------------- claims ------------------------------- *)

\* C1: in every returned report each entry of matched_lenders has
\* confidence >= 0.5 and each entry of unmatched_lenders has confidence
\* < 0.5, whatever the per-lender outcomes were.
C1_PartitionInvariant ==
    Returned =>
        /\ \A k \in 1..Len(report.matched_lenders) :
              report.matched_lenders[k].confidence_score >= 50
        /\ \A k \in 1..Len(report.unmatched_lenders) :
              report.unmatched_lenders[k].confidence_score < 50

\* A report with a judgment exactly at the threshold in matched, a judgment
\* below it in unmatched, and a failed lender.
C1_Witness ==
    /\ Returned
    /\ \E k \in 1..Len(report.matched_lenders) :
          report.matched_lenders[k].confidence_score = 50
    /\ report.unmatched_lenders # << >>
    /\ FailedLenders # {}

\* C2: when any subset of the evaluations fails, no exception leaves the
\* orchestration call and the report holds judgments for exactly the
\* lenders that succeeded; a failed lender is in neither list.
C2_FailureIsolation ==
    /\ pc # "raised"
    /\ Returned =>
          /\ ReportIds = { lenders[i] : i \in SucceededLenders }
          /\ \A i \in 1..N :
                (oracle[i] \in OracleFailures \/ oracleCalls[i] = 0)
                    => lenders[i] \notin ReportIds
          /\ Len(report.matched_lenders) + Len(report.unmatched_lenders)
                = Cardinality(SucceededLenders)

\* B's call ends in a network fault while A and C succeed: the report holds
\* A and C only.
C2_Witness ==
    /\ Returned
    /\ N = 3
    /\ oracle[2].kind = "network"
    /\ SucceededLenders = {1, 3}
    /\ ReportIds = { lenders[1], lenders[3] }

\* C3: total_lenders_evaluated is the length of the submitted lender list,
\* not the number of successful evaluations.
C3_TotalIsSubmitted ==
    Returned => report.total_lenders_evaluated = Len(lenders)

\* A report over three lenders of which at least one failed.
C3_Witness ==
    /\ Returned
    /\ N = 3
    /\ FailedLenders # {}
    /\ SucceededLenders # {}
    /\ report.total_lenders_evaluated = 3

\* C4: the lists depend on the submission order and the outcomes only, not
\* on the order of completion: of two entries of a list the earlier has the
\* higher confidence or, at equal confidence, was submitted earlier; and
\* confidences [0.9, 0.9, 0.3] for [A, B, C] give matched = [A, B] and
\* unmatched = [C].
C4_DeterministicOrder ==
    Returned =>
        /\ \A list \in {report.matched_lenders, report.unmatched_lenders} :
              \A a, b \in 1..Len(list) :
                 a < b =>
                    \/ list[a].confidence_score > list[b].confidence_score
                    \/ /\ list[a].confidence_score = list[b].confidence_score
                       /\ SubmissionIndex(list[a].lender_id)
                            < SubmissionIndex(list[b].lender_id)
        /\ ( /\ N = 3
             /\ results = << LenderMatchDTO(lenders[1], 90),
                             LenderMatchDTO(lenders[2], 90),
                             LenderMatchDTO(lenders[3], 30) >> )
           => /\ report.matched_lenders = << results[1], results[2] >>
              /\ report.unmatched_lenders = << results[3] >>

\* The three lenders of the example, finishing in the order C, B, A.
C4_Witness ==
    /\ Returned
    /\ N = 3
    /\ completion = << 3, 2, 1 >>
    /\ results = << LenderMatchDTO(lenders[1], 90),
                    LenderMatchDTO(lenders[2], 90),
                    LenderMatchDTO(lenders[3], 30) >>
    /\ report.matched_lenders = << results[1], results[2] >>
    /\ report.unmatched_lenders = << results[3] >>

\* C5: each list of a report is ordered by non-increasing confidence.
C5_SortedDescending ==
    Returned =>
        \A list \in {report.matched_lenders, report.unmatched_lenders} :
            \A k \in 1..(Len(list) - 1) :
                list[k].confidence_score >= list[k + 1].confidence_score

\* Two matched lenders submitted in ascending order of confidence, so that
\* the sort had to exchange them.
C5_Witness ==
    /\ Returned
    /\ N >= 2
    /\ IsJudgment(results[1]) /\ IsJudgment(results[2])
    /\ results[1].confidence_score >= 50
    /\ results[1].confidence_score < results[2].confidence_score
    /\ report.matched_lenders = << results[2], results[1] >>

\* Both verdict fields present in the payload of lender i.
ReportsBoth(i) ==
    /\ oracle[i].kind = "payload"
    /\ oracle[i].overall_match # Absent
    /\ oracle[i].confidence_score # Absent

\* C6: of a judgment built from a payload reporting overall_match and
\* confidence: false with confidence >= 0.5 gives exactly 0.4, true with
\* confidence < 0.5 gives exactly 0.6, every other case keeps the reported
\* confidence.
C6_ConfidenceCorrection ==
    \A i \in 1..N :
        (ReportsBoth(i) /\ IsJudgment(results[i])) =>
            LET m == oracle[i].overall_match[1]
                c == oracle[i].confidence_score[1]
                j == results[i].confidence_score
            IN  /\ (~m /\ c >= 50) => j = 40
                /\ (m /\ c < 50) => j = 60
                /\ ~((~m /\ c >= 50) \/ (m /\ c < 50)) => j = c

\* The three cases of the example: false/0.9 -> 0.4, true/0.1 -> 0.6,
\* true/0.8 -> 0.8.
C6_Witness ==
    /\ N = 3
    /\ oracle[1] = Payload(Some(FALSE), Some(90)) /\ results[1].confidence_score = 40
    /\ oracle[2] = Payload(Some(TRUE), Some(10)) /\ results[2].confidence_score = 60
    /\ oracle[3] = Payload(Some(TRUE), Some(80)) /\ results[3].confidence_score = 80

\* C7: a lender whose evaluation succeeded is in matched_lenders iff the
\* oracle's overall_match was true and in unmatched_lenders iff it was
\* false, whatever confidence came with it.
C7_PartitionFollowsVerdict ==
    Returned =>
        \A i \in SucceededLenders :
            oracle[i].overall_match # Absent =>
                /\ lenders[i] \in IdsOf(report.matched_lenders)
                      <=> oracle[i].overall_match[1] = TRUE
                /\ lenders[i] \in IdsOf(report.unmatched_lenders)
                      <=> oracle[i].overall_match[1] = FALSE

\* A verdict of true with confidence 0.1 in matched, a verdict of false
\* with confidence 0.9 in unmatched.
C7_Witness ==
    /\ Returned
    /\ \E i, j \in 1..N :
          /\ oracle[i] = Payload(Some(TRUE), Some(10))
          /\ lenders[i] \in IdsOf(report.matched_lenders)
          /\ oracle[j] = Payload(Some(FALSE), Some(90))
          /\ lenders[j] \in IdsOf(report.unmatched_lenders)

EmptyReport ==
    [ matched_lenders |-> << >>, unmatched_lenders |-> << >>,
      total_lenders_evaluated |-> 0 ]

\* C8 as stated: a call with an empty lender list fails and produces no
\* report.
C8_EmptyListFails ==
    N = 0 => (~Returned /\ report = NoReport)

\* C8 amended: with an empty lender list no task is created and no oracle
\* call is made; the route answers 400 without calling evaluate_application
\* and produces no report, while evaluate_application itself, called with
\* the empty list, raises nothing and returns a report with empty lists and
\* total_lenders_evaluated = 0.
C8_EmptyListAmended ==
    N = 0 =>
        /\ completion = << >>
        /\ pc # "raised"
        /\ (entry = "route" /\ pc # "idle") =>
              (pc = "http_error" /\ httpStatus = 400 /\ report = NoReport)
        /\ (entry = "direct") =>
              /\ pc \in {"gathering", "returned"}
              /\ Returned => report = EmptyReport

\* evaluate_application has returned from a call with the empty list.
C8_Witness ==
    /\ N = 0
    /\ entry = "direct"
    /\ Returned
    /\ report = EmptyReport

\* C9: a report exists only when every lender's evaluation has reached a
\* terminal state.
C9_FullJoin ==
    (Returned \/ report # NoReport) => \A i \in 1..N : task[i] = "done"

\* A report over three lenders of which the last submitted finished first.
C9_Witness ==
    /\ Returned
    /\ N = 3
    /\ Len(completion) = 3
    /\ completion[1] = 3

\* C10: with a non-empty lender list and oracle calls that all end, the
\* call eventually returns a report and never raises; when every
\* evaluation failed the report has empty lists and counts the N lenders.
C10_ReportEventually ==
    /\ (pc = "gathering" /\ N > 0) ~> Returned
    /\ [](pc # "raised")
    /\ []((Returned /\ N > 0 /\ SucceededLenders = {}) =>
            report = [ matched_lenders |-> << >>, unmatched_lenders |-> << >>,
                       total_lenders_evaluated |-> N ])

\* Three lenders, every evaluation failed, the report returned.
C10_Witness ==
    /\ Returned
    /\ N = 3
    /\ FailedLenders = {1, 2, 3}
    /\ report.matched_lenders = << >>
    /\ report.unmatched_lenders = << >>
    /\ report.total_lenders_evaluated = 3

\* C11: within one orchestration call at most one oracle request is issued
\* per lender; a lender whose evaluation has ended, failed or not, is not
\* requested again.
C11_AtMostOneRequest ==
    \A i \in 1..N :
        /\ oracleCalls[i] <= 1
        /\ (task[i] = "done" /\ ~IsJudgment(results[i])) =>
              oracleCalls[i] = (IF promptOk THEN 1 ELSE 0)

\* A returned report over three lenders, one timed out and one answered
\* with unparseable text, each requested exactly once.
C11_Witness ==
    /\ Returned
    /\ N = 3
    /\ \E i, j \in 1..N : oracle[i].kind = "timeout" /\ oracle[j].kind = "malformed"
    /\ \A i \in 1..N : oracleCalls[i] = 1

\* The repair the contract asks for: a comma in front of the closing brace
\* is dropped, a control character inside a string is escaped.
RepairedAsSpecified(t) ==
    LET keep == { k \in 1..Len(t) : ~(t[k] = "," /\ k < Len(t) /\ t[k + 1] = "}") }
        nth(n) == CHOOSE k \in keep : Cardinality({ l \in keep : l <= k }) = n
    IN  [ n \in 1..Cardinality(keep) |->
            IF t[nth(n)] = "R^" THEN "R1" ELSE t[nth(n)] ]

\* The cleaned text has no other defect than a trailing comma or an
\* unescaped control character.
OnlyRepairableDefect(t) ==
    ~JsonLoads(t).ok /\ JsonLoads(RepairedAsSpecified(t)).ok

\* C12: a response whose only defect is a trailing comma or an unescaped
\* control character is repaired once, parsed a second time and turned
\* into a judgment.
C12_RepairYieldsJudgment ==
    ( /\ ev.pc = "done"
      /\ ev.response.kind = "text"
      /\ OnlyRepairableDefect(ev.cleaned) )
    => /\ ev.repairs = 1
       /\ ev.parses = 2
       /\ IsJudgment(ev.result)

\* C13: within one lender evaluation json.loads is called at most twice
\* and the repair at most once, and a text that cannot be parsed, not even
\* once repaired, ends the evaluation in a failure.
C13_RepairBounded ==
    /\ ev.parses <= 2
    /\ ev.repairs <= 1
    /\ ( /\ ev.pc = "done"
         /\ ev.response.kind = "text"
         /\ ~JsonLoads(ev.cleaned).ok
         /\ ~JsonLoads(RepairedAsSpecified(ev.cleaned)).ok )
       => (ev.result = RaisedException /\ ev.repairs = 1)

\* The evaluation of a response that is no JSON at all has ended in a
\* failure after one repair attempt.
C13_Witness ==
    /\ ev.pc = "done"
    /\ ev.response.kind = "text"
    /\ ev.response.parts.body = << "x" >>
    /\ ev.repairs = 1
    /\ ev.parses >= 1
    /\ ev.result = RaisedException

\* The response that carries the same object with nothing around it.
Unwrapped(r) == [ kind |-> "text", parts |-> [NoParts EXCEPT !.body = r.parts.body] ]

\* C14: a payload wrapped in a fenced block (opening fence, bare or tagged
\* json, closing fence, whitespace around them) is cleaned to the same text
\* and evaluated to the same result as the payload without the wrapping.
C14_FenceStrippingIdempotent ==
    ( /\ ev.pc = "done"
      /\ ev.response.kind = "text"
      /\ ev.response.parts.open \in { Fence, FenceJson }
      /\ ev.response.parts.close = Fence )
    => /\ ev.cleaned = CleanResponseText(ev.response.parts.body)
       /\ ev.result = ProcessResponse(EvLender, Unwrapped(ev.response)).result

\* A judgment has come out of an object inside a json-tagged fence with
\* whitespace around the fences and newlines inside them.
C14_Witness ==
    /\ ev.pc = "done"
    /\ ev.response.kind = "text"
    /\ ev.response.parts.lead = << " " >>
    /\ ev.response.parts.open = FenceJson
    /\ ev.response.parts.sep = << "nl" >>
    /\ ev.response.parts.sep2 = << "nl" >>
    /\ ev.response.parts.close = Fence
    /\ ev.response.parts.trail = << "nl" >>
    /\ ev.cleaned = ev.response.parts.body
    /\ IsJudgment(ev.result)

\* The analysis json.loads reads from the cleaned text of the evaluation.
EvAnalysis == JsonLoads(ev.cleaned).analysis

\* C15: a parsed payload whose optional fields (improvement_suggestions,
\* the reasoning of a criterion) are missing or null always yields a
\* judgment, and a missing field is empty in that judgment.
C15_OptionalFieldsDefault ==
    ( /\ ev.pc = "done"
      /\ ev.response.kind = "text"
      /\ JsonLoads(ev.cleaned).ok
      /\ IsJudgment(ConvertToLenderMatchDTO(EvLender, EvAnalysis)) )
    => /\ IsJudgment(ev.result)
       /\ EvAnalysis.improvement_suggestions = Absent
             => ev.result.improvement_suggestions = "empty"
       /\ EvAnalysis.criterion = Some("Rx")
             => ev.result.criterion_reasoning = "empty"

\* C16: when the request of a lender cannot be built from the application
\* data, the orchestration call ends in an error and returns no report.
C16_RequestErrorAborts ==
    (N > 0 /\ ~promptOk) => (~Returned /\ report = NoReport)

\* Every per-lender variable keeps its value at every lender but i.
OnlySlotWritten(i) ==
    \A j \in (1..N) \ {i} :
        /\ task'[j] = task[j]
        /\ results'[j] = results[j]
        /\ oracle'[j] = oracle[j]
        /\ oracleCalls'[j] = oracleCalls[j]

\* C17: no step of evaluate_application or of a lender's evaluation changes
\* the lender list or the application data, and a step of one lender's
\* evaluation writes nothing that belongs to another lender's evaluation.
C17_InputsUnchanged ==
    [][ /\ lenders' = lenders
        /\ promptOk' = promptOk
        /\ (pc = "gathering" /\ pc' = "gathering") => \E i \in 1..N : OnlySlotWritten(i)
      ]_vars

\* A report over the three lenders as they were submitted, after their
\* evaluations interleaved and finished out of submission order.
C17_Witness ==
    /\ Returned
    /\ lenders = [i \in 1..3 |-> LenderId(i)]
    /\ completion = << 2, 3, 1 >>
    /\ \A i \in 1..N : oracleCalls[i] = 1 /\ IsJudgment(results[i])

\* The entries of the report, matched and unmatched.
ReportEntries == report.matched_lenders \o report.unmatched_lenders

\* C18: every judgment in a returned report has a confidence_score within
\* [0, 1], whatever confidence the oracle reported.
C18_ConfidenceInRange ==
    Returned =>
        \A k \in 1..Len(ReportEntries) :
            /\ ReportEntries[k].confidence_score >= MinConfidence
            /\ ReportEntries[k].confidence_score <= MaxConfidence

\* A report after the oracle reported 1.2 for a lender it did not match
\* (listed with the corrected 0.4), 1.2 for a lender it matched and -0.1
\* for a third one (both left out of the report).
C18_Witness ==
    /\ Returned
    /\ N = 3
    /\ oracle[1] = Payload(Some(FALSE), Some(120))
    /\ oracle[2] = Payload(Some(TRUE), Some(120))
    /\ oracle[3] = Payload(Some(FALSE), Some(-10))
    /\ ReportEntries = << LenderMatchDTO(LenderId(1), ClampUnmatched) >>

\* C19: for every stored application, with optional facts present or null,
\* the prompt is built and the evaluation issues its oracle call.
C19_PromptForEveryApplication ==
    (ev.pc \in {"requested", "done"}) => ev.calls = 1

\* The characters a language tag is written with.
TagChars == { "j", "s", "o", "n", "p", "y" }

\* The text behind its first line.
RECURSIVE DropFirstLine(_)
DropFirstLine(t) ==
    IF t = << >> THEN << >>
    ELSE IF Head(t) = "nl" THEN Tail(t) ELSE DropFirstLine(Tail(t))

\* Fence stripping that removes the whole first line of a text opening with
\* a tagged fence, whatever the tag.
CleanFirstLine(text) ==
    LET t0 == Strip(text)
        t1 == IF StartsWith(t0, Fence) /\ Len(t0) > FenceLen /\ t0[FenceLen + 1] \in TagChars
              THEN DropFirstLine(t0)
              ELSE IF StartsWith(t0, Fence) THEN DropFirst(t0, FenceLen)
              ELSE t0
        t2 == IF EndsWith(t1, Fence) THEN DropLast(t1, FenceLen) ELSE t1
    IN  Strip(t2)

\* C20 as stated: a text opening with a fence and any language tag loses
\* its whole first line, one opening with a bare fence its first three
\* characters; a trailing fence is removed and the result is trimmed.
C20_FirstLineRemoved ==
    (ev.pc = "done" /\ ev.response.kind = "text")
    => ev.cleaned = CleanFirstLine(ResponseText(ev.response.parts))

\* C20, amended: after trimming, the literal opening fence tagged json
\* (seven characters) is removed, otherwise a bare opening fence (three
\* characters); a tag other than json stays in the text together with the
\* rest of its line; a trailing fence is removed and the result is trimmed.
C20_FenceStrippingAmended ==
    (ev.pc = "done" /\ ev.response.kind = "text")
    => ev.cleaned =
          (IF ev.response.parts.open = FencePy
           THEN << "p", "y" >> \o ev.response.parts.sep
           ELSE << >>) \o ev.response.parts.body

\* The cleaning has run on an object in a fence tagged py: the tag and its
\* newline are still in front of the object, and the evaluation failed.
C20_Witness ==
    /\ ev.pc = "done"
    /\ ev.response.kind = "text"
    /\ ev.response.parts.open = FencePy
    /\ ev.response.parts.sep = << "nl" >>
    /\ ev.response.parts.close = Fence
    /\ ev.cleaned = << "p", "y", "nl" >> \o ev.response.parts.body
    /\ ev.result = RaisedException

\* C21: no evaluation waits on another.  A task whose turn to start has
\* come can start whatever the other tasks' oracle calls are doing, and a
\* task whose oracle call is outstanding can finish whatever state the
\* other tasks are in.
C21_NoEvaluatorWaits ==
    \A i \in 1..N :
        /\ ( /\ pc = "gathering"
             /\ task[i] = "created"
             /\ \A j \in 1..(i - 1) : task[j] # "created" )
           => ENABLED TaskStart(i)
        /\ (pc = "gathering" /\ task[i] = "pending")
           => ENABLED (\E o \in LiveOutcomes : TaskComplete(i, o))

\* The second of three lenders has finished while the oracle calls of the
\* first and of the third are both still outstanding: a later task ended
\* before an earlier one, and an earlier one before a later one.
C21_Witness ==
    /\ pc = "gathering"
    /\ N = 3
    /\ completion = << 2 >>
    /\ task = << "pending", "done", "pending" >>
    /\ oracleCalls = << 1, 1, 1 >>

\* How many entries of the report carry the identifier id.
Occurrences(id) ==
    Cardinality({ k \in 1..Len(ReportEntries) : ReportEntries[k].lender_id = id })

\* C22: no call is cancelled once the fan-out has begun.  A report exists
\* only after every lender's task ran to its own end; every lender whose
\* evaluation succeeded is in the report exactly once, no lender twice, and
\* the two lists together hold as many entries as evaluations succeeded,
\* which is at most total_lenders_evaluated.
C22_NoCancellation ==
    Returned =>
        /\ \A i \in 1..N : task[i] = "done" /\ results[i] # NotDone
        /\ \A i \in 1..N : IsJudgment(results[i]) => Occurrences(lenders[i]) = 1
        /\ \A i \in 1..N : Occurrences(lenders[i]) <= 1
        /\ Len(ReportEntries) = Cardinality(SucceededLenders)
        /\ Len(ReportEntries) <= report.total_lenders_evaluated

\* The first lender's call failed first, and the calls of the other two
\* still ran to their judgments, one matched and one unmatched.
C22_Witness ==
    /\ Returned
    /\ N = 3
    /\ completion[1] = 1
    /\ oracle[1].kind = "timeout"
    /\ SucceededLenders = {2, 3}
    /\ Len(report.matched_lenders) = 1
    /\ Len(report.unmatched_lenders) = 1
    /\ report.total_lenders_evaluated = 3

\* The evaluation has ended on a text that did not parse.
ParsingFailed ==
    /\ ev.pc = "done"
    /\ ev.response.kind = "text"
    /\ ev.parses >= 1
    /\ ~JsonLoads(ev.cleaned).ok

\* C23 as stated: the failure of a text that does not parse is a
\* malformed-response error holding the raw text cut to the diagnostic
\* length.
C23_FailureCarriesText ==
    ParsingFailed =>
        /\ ev.error.type = "MalformedResponseError"
        /\ ev.error.raw_text = Truncate(ResponseText(ev.response.parts), DiagnosticLen)
        /\ Len(ev.error.raw_text) <= DiagnosticLen

\* C23, amended: the failure of a text that does not parse is a plain
\* Exception wrapping the underlying error, and it holds none of the
\* oracle's text.
C23_FailureAmended ==
    ParsingFailed =>
        /\ ev.result = RaisedException
        /\ ev.error.type = "Exception"
        /\ ev.error.cause \in { "AttributeError", "JSONDecodeError" }
        /\ ev.error.raw_text = << >>

\* A fenced text with a defect inside the object failed to parse: the
\* failure is an Exception without any text.
C23_Witness ==
    /\ ParsingFailed
    /\ ev.response.parts.open = FenceJson
    /\ ev.cleaned = << "{", "M1", ",", "C80", ",", "R^", "}" >>
    /\ ev.error.type = "Exception"
    /\ ev.error.raw_text = << >>
    /\ ev.result = RaisedException

\* The report the coordinator assembles from the result of the evaluation.
EvReport == EligibilityResultDTO(<< EvLender >>, << ev.result >>)

\* The evaluation has ended on a text that parsed.
EvParsed == ev.pc = "done" /\ ev.response.kind = "text" /\ JsonLoads(ev.cleaned).ok

\* C24 as stated: a lender whose payload has no overall_match is placed in
\* unmatched_lenders whatever confidence the payload reports, and a payload
\* without confidence_score gives 0.5 (matched) when overall_match is true
\* and 0.4 (unmatched) when it is false or absent.
C24_VerdictDefaults ==
    EvParsed =>
        /\ (EvAnalysis.overall_match = Absent /\ EvAnalysis.criterion # Some("R0"))
              => /\ Len(EvReport.unmatched_lenders) = 1
                 /\ EvReport.matched_lenders = << >>
        /\ (EvAnalysis.confidence_score = Absent /\ EvAnalysis.criterion # Some("R0"))
              => IF EvAnalysis.overall_match = Some(TRUE)
                 THEN /\ Len(EvReport.matched_lenders) = 1
                      /\ EvReport.matched_lenders[1].confidence_score = DefaultConfidence
                 ELSE /\ Len(EvReport.unmatched_lenders) = 1
                      /\ EvReport.unmatched_lenders[1].confidence_score = ClampUnmatched

\* C24, amended: a payload without overall_match is treated as not
\* matched, so its lender is never in matched_lenders, and is in
\* unmatched_lenders whenever its judgment is constructed (a reported
\* confidence below 0 fails validation and the lender is dropped); a
\* payload without confidence_score gives 0.5 (matched) when overall_match
\* is true and 0.4 (unmatched) when it is false or absent.
C24_VerdictDefaultsAmended ==
    EvParsed =>
        /\ EvAnalysis.overall_match = Absent
              => /\ EvReport.matched_lenders = << >>
                 /\ IsJudgment(ev.result) => Len(EvReport.unmatched_lenders) = 1
                 /\ ( /\ EvAnalysis.confidence_score # Absent
                      /\ EvAnalysis.confidence_score[1] < MinConfidence )
                    => (ev.result = RaisedException /\ EvReport.unmatched_lenders = << >>)
        /\ (EvAnalysis.confidence_score = Absent /\ IsJudgment(ev.result))
              => IF EvAnalysis.overall_match = Some(TRUE)
                 THEN /\ Len(EvReport.matched_lenders) = 1
                      /\ EvReport.matched_lenders[1].confidence_score = DefaultConfidence
                 ELSE /\ Len(EvReport.unmatched_lenders) = 1
                      /\ EvReport.unmatched_lenders[1].confidence_score = ClampUnmatched

\* An empty object was evaluated: both defaults applied, and the lender is
\* unmatched with confidence 0.4.
C24_Witness ==
    /\ EvParsed
    /\ ev.cleaned = << "{", "}" >>
    /\ EvAnalysis.overall_match = Absent
    /\ EvAnalysis.confidence_score = Absent
    /\ ev.result.confidence_score = ClampUnmatched
    /\ Len(EvReport.unmatched_lenders) = 1

\* The evaluation has ended on a parsed payload with the verdict m and a
\* confidence outside [0, 1], above it or below it.
OutOfRange(m, above) ==
    /\ EvParsed
    /\ EvAnalysis.overall_match = Some(m)
    /\ EvAnalysis.confidence_score # Absent
    /\ IF above THEN EvAnalysis.confidence_score[1] > MaxConfidence
                ELSE EvAnalysis.confidence_score[1] < MinConfidence

\* The lender of the evaluation is in neither list of the report.
EvDropped ==
    /\ ev.result = RaisedException
    /\ ev.error.cause = "ValidationError"
    /\ EvReport.matched_lenders = << >>
    /\ EvReport.unmatched_lenders = << >>

\* C25: a confidence outside [0, 1] that disagrees with the verdict is
\* replaced (0.4 for no match, 0.6 for a match) and the lender is in the
\* report; one that agrees with the verdict fails validation and the
\* lender is in neither list.
C25_OutOfRangeAsymmetry ==
    /\ OutOfRange(FALSE, TRUE)
          => /\ EvReport.matched_lenders = << >>
             /\ Len(EvReport.unmatched_lenders) = 1
             /\ EvReport.unmatched_lenders[1].confidence_score = ClampUnmatched
    /\ OutOfRange(TRUE, FALSE)
          => /\ EvReport.unmatched_lenders = << >>
             /\ Len(EvReport.matched_lenders) = 1
             /\ EvReport.matched_lenders[1].confidence_score = ClampMatched
    /\ OutOfRange(TRUE, TRUE) => EvDropped
    /\ OutOfRange(FALSE, FALSE) => EvDropped

\* A match reported with confidence -0.1 has been evaluated and is in the
\* matched list with 0.6.
C25_Witness ==
    /\ OutOfRange(TRUE, FALSE)
    /\ ev.cleaned = << "{", "M1", ",", "Cneg", "}" >>
    /\ ev.result.confidence_score = ClampMatched
    /\ Len(EvReport.matched_lenders) = 1

\* C26: in a submission the stored status is "evaluated" only once
\* evaluate_application has returned a report, all lender tasks being done;
\* this includes the report with two empty lists.
C26_EvaluatedAfterReport ==
    (rt.handler = "submit" /\ rt.app.status = "evaluated")
    => /\ Returned
       /\ report # NoReport
       /\ report.total_lenders_evaluated = N
       /\ \A i \in 1..N : task[i] = "done"

\* A submission was marked evaluated and answered although the evaluation
\* of each of its three lenders failed: the report is empty.
C26_Witness ==
    /\ rt.handler = "submit"
    /\ rt.app.status = "evaluated"
    /\ httpStatus = HttpCreated
    /\ N = 3
    /\ FailedLenders = {1, 2, 3}
    /\ report = [EmptyReport EXCEPT !.total_lenders_evaluated = 3]

\* C27: a submission stores its application before it lists the lenders,
\* and when it ends in the 400 of an empty lender list, or in a later
\* failure, the application is still stored as pending; in the 400 case no
\* evaluation was started and no oracle call made.
C27_PendingSurvivesFailure ==
    rt.handler = "submit" =>
        /\ rt.listed => rt.created
        /\ (rt.created /\ httpStatus \in {HttpBadRequest, HttpServerError})
              => rt.app = StoredApp("pending")
        /\ httpStatus = HttpBadRequest
              => /\ rt.created
                 /\ pc = "idle"
                 /\ \A i \in 1..N : oracleCalls[i] = 0

\* A submission was answered 400 for want of lenders and its application
\* is stored as pending.
C27_Witness ==
    /\ rt.handler = "submit"
    /\ rt.pc = "responded"
    /\ httpStatus = HttpBadRequest
    /\ N = 0
    /\ rt.app = StoredApp("pending")

C29_NoCriteriaAfterDelete ==
    (lm.del.pc = "done" /\ lm.del.http = HttpOk) => lm.del.remaining = 0

\* C30: an upload of a .pdf file whose extraction text parses is answered
\* 201, the lender is created, one criterion is stored under its id for
\* each extracted criterion with a criteria_key and a display_name, and
\* criteria_count is their number.
C30_UploadCreatesLenderAndCriteria ==
    (lm.up.done /\ lm.up.file.pdf /\ lm.up.file.parseable)
    => /\ lm.up.http = HttpCreated
       /\ lm.up.lender_id = NewLenderId
       /\ NewLenderId \in lm.lenders
       /\ lm.up.criteria_count = Len(KeptCriteria(lm.up.file.extracted))
       /\ lm.criteria[NewLenderId] = lm.up.criteria_count

====
